---- MODULE Spec2Model ----
(***************************************************************************)
(* Model of the Markdown sidecar (app/main.py): the HTML -> Markdown       *)
(* pipeline html_to_markdown with its helpers extract_metadata and         *)
(* strip_non_content, the token estimator count_tokens with the lazily     *)
(* built shared encoder, and the convert request handler.                  *)
(*                                                                         *)
(* Text is a sequence of one-character strings, so that strip, splitlines, *)
(* join, replace and len are computed the way the code computes them.  A   *)
(* parsed document is the sequence of its elements in document order, each *)
(* naming its parent (0 is the BeautifulSoup object itself).               *)
(***************************************************************************)
EXTENDS Integers, Sequences, FiniteSets, TLC

VARIABLES
    doc,            \* soup: the parsed document of html_to_markdown
    pc,             \* position of html_to_markdown in its numbered steps
    metadata,       \* dict built by extract_metadata, in insertion order
    content_root,   \* the element chosen in step 2 (0: the soup itself)
    removed,        \* elements decomposed so far (steps 3 and 4)
    raw,            \* markdown_body as returned by md(...) in step 5
    body,           \* markdown_body after step 6
    output,         \* markdown_body returned by html_to_markdown
    short_text,     \* count_tokens: a text
    suffix,         \* count_tokens: content appended to short_text
    tokenizer_ok,   \* count_tokens: whether get_encoder().encode succeeds
    counts,         \* count_tokens: the results for "", short_text, long text
    _encoder,       \* the module global _encoder
    constructed,    \* how many times tiktoken.get_encoding has returned
    req,            \* per request: position of the convert handler
    origin,         \* per request: the origin_response it received
    response,       \* per request: what the handler answered
    strip_selectors \* the module global STRIP_SELECTORS after startup

vars == <<doc, pc, metadata, content_root, removed, raw, body, output,
          short_text, suffix, tokenizer_ok, counts,
          _encoder, constructed, req, origin, response, strip_selectors>>

docVars == <<doc, pc, metadata, content_root, removed, raw, body, output>>
tokVars == <<short_text, suffix, tokenizer_ok, counts>>
reqVars == <<_encoder, constructed, req, origin, response>>
cfgVars == <<strip_selectors>>

-----------------------------------------------------------------------------
(* Bounds of the model                                                     *)

MaxNodes == 3       \* elements of a parsed document
MaxLines == 6       \* lines of a serialized Markdown text
MaxText == 5        \* characters of a text given to count_tokens
MaxSuffix == 4      \* characters appended to it
MaxReqs == 2        \* requests in flight
MaxRules == 2       \* selectors of a configured strip-rule list

-----------------------------------------------------------------------------
(* Text: Python str as a sequence of characters                            *)

NL == "\n"
Whitespace == {" ", NL, "\t"}
None == <<"<None>">>
NoNode == 0 - 1

Min(S) == CHOOSE x \in S : \A y \in S : x <= y

RECURSIVE Concat(_)
Concat(ss) == IF ss = <<>> THEN <<>> ELSE Head(ss) \o Concat(Tail(ss))

RECURSIVE LStrip(_)
LStrip(t) == IF t = <<>> \/ Head(t) \notin Whitespace THEN t ELSE LStrip(Tail(t))

RECURSIVE RStrip(_)
RStrip(t) ==
    IF t = <<>> \/ t[Len(t)] \notin Whitespace THEN t
    ELSE RStrip(SubSeq(t, 1, Len(t) - 1))

\* str.strip()
Strip(t) == RStrip(LStrip(t))

RECURSIVE SplitAcc(_, _, _)
SplitAcc(t, cur, acc) ==
    IF t = <<>> THEN (IF cur = <<>> THEN acc ELSE Append(acc, cur))
    ELSE IF Head(t) = NL THEN SplitAcc(Tail(t), <<>>, Append(acc, cur))
    ELSE SplitAcc(Tail(t), Append(cur, Head(t)), acc)

\* str.splitlines(): no trailing empty line, "" gives no line at all
SplitLines(t) == SplitAcc(t, <<>>, <<>>)

RECURSIVE Join(_)
\* "\n".join(lines)
Join(ls) ==
    IF ls = <<>> THEN <<>>
    ELSE IF Len(ls) = 1 THEN ls[1]
    ELSE ls[1] \o <<NL>> \o Join(Tail(ls))

RECURSIVE EscapeQuotes(_)
\* value.replace('"', '\\"')
EscapeQuotes(t) ==
    IF t = <<>> THEN <<>>
    ELSE (IF Head(t) = "\"" THEN <<"\\", "\"">> ELSE <<Head(t)>>)
         \o EscapeQuotes(Tail(t))

StartsWith(t, p) == Len(t) >= Len(p) /\ SubSeq(t, 1, Len(p)) = p

\* p in t (substring)
Contains(t, p) ==
    \E i \in 1..(Len(t) + 1) :
        i + Len(p) - 1 <= Len(t) /\ SubSeq(t, i, i + Len(p) - 1) = p

Dashes == <<"-", "-", "-">>

-----------------------------------------------------------------------------
(* Parsed documents                                                        *)

\* An element: tag name, id, class list, role, the name/property of a meta
\* element, its text-valued attributes, and its leading text child.
El(tag, id, cls, role, name, property, attrs, text) ==
    [tag |-> tag, id |-> id, cls |-> cls, role |-> role, name |-> name,
     property |-> property, attrs |-> attrs, text |-> text]

Tag(tag) == El(tag, "", {}, "", "", "", <<>>, <<>>)
TagText(tag, text) == El(tag, "", {}, "", "", "", <<>>, text)

\* Elements the parser never gives element children: void elements, and the
\* elements whose content is raw text.
Leaf == {"img", "meta", "hr", "br", "input", "script", "style", "title"}

At(kind, parent) == [k \in DOMAIN kind \cup {"parent"} |->
                        IF k = "parent" THEN parent ELSE kind[k]]

\* The documents of at most n elements drawn from kinds, in document order:
\* the parent of element i is the soup (0) or an open element before it.
RECURSIVE Ancestors(_, _)
Ancestors(d, i) ==
    IF i = 0 THEN {} ELSE {d[i].parent} \cup Ancestors(d, d[i].parent)

\* The parents of the elements of a document of n elements: an element is a
\* child of the soup (0) or of an element still open when it is parsed, the
\* element before it or one of that element's ancestors.
RECURSIVE UpFrom(_, _)
UpFrom(ps, i) == IF i = 0 THEN {0} ELSE {i} \cup UpFrom(ps, ps[i])

RECURSIVE ParentSeqs(_)
ParentSeqs(n) ==
    IF n = 0 THEN {<<>>}
    ELSE UNION { {Append(ps, p) : p \in UpFrom(ps, n - 1)} : ps \in ParentSeqs(n - 1) }

DocOf(ks, ps) == [i \in 1..Len(ps) |-> At(ks[i], ps[i])]

Label == <<"1", "2", "3", "4", "5", "6", "7", "8", "9">>

\* Every element given a text of its own, so that a text found in the output
\* names the element it came from
Labelled(d) == [i \in DOMAIN d |-> [d[i] EXCEPT !.text = <<Label[i]>>]]

\* d is a document the parser can give: at most MaxNodes elements drawn
\* from kinds, in document order, none the child of a leaf element
Parsed(d, kinds, labelled) ==
    \E n \in 0..MaxNodes :
        \E ps \in ParentSeqs(n) :
            \E ks \in [1..n -> kinds] :
                /\ \A i \in 1..n : ps[i] # 0 => ks[ps[i]].tag \notin Leaf
                /\ d = IF labelled THEN Labelled(DocOf(ks, ps)) ELSE DocOf(ks, ps)

\* tag.get(attr)
Get(n, attr) == IF attr \in DOMAIN n.attrs THEN n.attrs[attr] ELSE None

\* Python truthiness of an attribute value or of a NavigableString
Truthy(v) == v # None /\ v # <<>>

Nodes(d) == 1..Len(d)

\* The descendants of element r (of everything, for the soup)
Descendants(d, r) == {j \in Nodes(d) : r \in Ancestors(d, j)}

SubtreeSelf(d, r) == (IF r = 0 THEN {} ELSE {r}) \cup Descendants(d, r)

\* The element children of i that are still attached, in document order
RECURSIVE SortedSeq(_)
SortedSeq(S) == IF S = {} THEN <<>> ELSE <<Min(S)>> \o SortedSeq(S \ {Min(S)})

Children(d, i, gone) == SortedSeq({j \in Nodes(d) \ gone : d[j].parent = i})

\* soup.find(...): the first in document order of the elements that match
First(S) == IF S = {} THEN NoNode ELSE Min(S)

\* Tag.string: the only child if it is a string, the only child's .string if
\* it is an element, None with no child or several
RECURSIVE TagString(_, _)
TagString(d, i) ==
    LET kids == Children(d, i, {})
        n == (IF d[i].text = <<>> THEN 0 ELSE 1) + Len(kids)
    IN IF n # 1 THEN None
       ELSE IF d[i].text # <<>> THEN d[i].text
       ELSE TagString(d, kids[1])

-----------------------------------------------------------------------------
(* extract_metadata                                                        *)

MetaNames == <<"description", "author", "keywords">>

TitleEntry(d) ==
    LET title_tag == First({j \in Nodes(d) : d[j].tag = "title"})
    IN IF title_tag # NoNode /\ Truthy(TagString(d, title_tag))
       THEN << <<"title", Strip(TagString(d, title_tag))>> >>
       ELSE <<>>

NameEntry(d, name) ==
    LET tag == First({j \in Nodes(d) : d[j].tag = "meta" /\ d[j].name = name})
    IN IF tag # NoNode /\ Truthy(Get(d[tag], "content"))
       THEN << <<name, Strip(Get(d[tag], "content"))>> >>
       ELSE <<>>

ImageEntry(d) ==
    LET og_image == First({j \in Nodes(d) : d[j].tag = "meta" /\ d[j].property = "og:image"})
    IN IF og_image # NoNode /\ Truthy(Get(d[og_image], "content"))
       THEN << <<"image", Strip(Get(d[og_image], "content"))>> >>
       ELSE <<>>

\* The dict as its (key, value) pairs in insertion order
extract_metadata(d) ==
    TitleEntry(d) \o NameEntry(d, MetaNames[1]) \o NameEntry(d, MetaNames[2])
    \o NameEntry(d, MetaNames[3]) \o ImageEntry(d)

-----------------------------------------------------------------------------
(* html_to_markdown, step 2: the content root                              *)

OrElse(a, b) == IF a # NoNode THEN a ELSE b

\* SelectRoot with the id and class tiers matching elements of any tag
SelectRootAnyTag(d) ==
    OrElse(First({j \in Nodes(d) : d[j].tag = "main"}),
    OrElse(First({j \in Nodes(d) : d[j].tag = "article"}),
    OrElse(First({j \in Nodes(d) : d[j].id = "content"}),
    OrElse(First({j \in Nodes(d) : "content" \in d[j].cls}),
    OrElse(First({j \in Nodes(d) : d[j].tag = "body"}),
           0)))))

SelectRoot(d) ==
    OrElse(First({j \in Nodes(d) : d[j].tag = "main"}),
    OrElse(First({j \in Nodes(d) : d[j].tag = "article"}),
    OrElse(First({j \in Nodes(d) : d[j].tag = "div" /\ d[j].id = "content"}),
    OrElse(First({j \in Nodes(d) : d[j].tag = "div" /\ "content" \in d[j].cls}),
    OrElse(First({j \in Nodes(d) : d[j].tag = "body"}),
           0)))))

-----------------------------------------------------------------------------
(* strip_non_content and step 4                                            *)

Sel(kind, val) == [kind |-> kind, val |-> val]

STRIP_SELECTORS ==
    << Sel("tag", "nav"), Sel("tag", "header"), Sel("tag", "footer"),
       Sel("tag", "script"), Sel("tag", "style"), Sel("tag", "noscript"),
       Sel("tag", "iframe"), Sel("tag", "object"), Sel("tag", "embed"),
       Sel("class", "cookie-banner"), Sel("class", "cookie-consent"),
       Sel("id", "cookie-banner"), Sel("id", "cookie-consent"),
       Sel("role", "navigation"), Sel("role", "banner"),
       Sel("role", "contentinfo"),
       Sel("class", "breadcrumb"), Sel("class", "pagination"),
       Sel("class", "sidebar"), Sel("tag", "aside"),
       Sel("tag", "form") >>

\* The list strip_non_content iterates when no extra selector is configured
DefaultRules == strip_selectors = STRIP_SELECTORS

\* A simple selector: whether it matches is a matter of the element alone
Matches(n, sel) ==
    CASE sel.kind = "tag" -> n.tag = sel.val
      [] sel.kind = "class" -> sel.val \in n.cls
      [] sel.kind = "id" -> n.id = sel.val
      [] sel.kind = "role" -> n.role = sel.val

\* tag:first-child, as an extra selector can be: the element is the first
\* element child still attached to its parent
IsFirstChild(d, gone, j) ==
    \A k \in Nodes(d) \ gone : d[k].parent = d[j].parent => j <= k

\* Whether selector sel matches element j of the tree as it is now
MatchesIn(d, gone, j, sel) ==
    IF sel.kind = "first-child"
    THEN d[j].tag = sel.val /\ IsFirstChild(d, gone, j)
    ELSE Matches(d[j], sel)

\* Select looking at the children of root only
SelectChildrenOnly(d, root, gone, sel) ==
    {j \in Nodes(d) \ gone : d[j].parent = root /\ Matches(d[j], sel)}

\* root.select(selector): the attached descendants of root that match
Select(d, root, gone, sel) ==
    {j \in Descendants(d, root) \ gone : MatchesIn(d, gone, j, sel)}

\* Detaching the matched elements and leaving their subtrees behind
DetachOnly(d, gone, elements) == gone \cup elements

\* element.decompose() for every element of a result set: each goes with its
\* subtree; one already destroyed with an ancestor has nothing left to detach
Decompose(d, gone, elements) ==
    gone \cup UNION {SubtreeSelf(d, e) : e \in elements}

\* for selector in STRIP_SELECTORS: ..., from the k-th selector on
RECURSIVE StripFrom(_, _, _, _, _)
StripFrom(d, root, gone, selectors, k) ==
    IF k > Len(selectors) THEN gone
    ELSE StripFrom(d, root,
                   Decompose(d, gone, Select(d, root, gone, selectors[k])),
                   selectors, k + 1)

strip_non_content(d, root, gone, selectors) == StripFrom(d, root, gone, selectors, 1)

\* Step 4 left out
RemoveNoImages(d, root, gone) == gone

\* for img in content_root.find_all("img"): img.decompose()
RemoveImages(d, root, gone) ==
    Decompose(d, gone, {j \in Descendants(d, root) \ gone : d[j].tag = "img"})

-----------------------------------------------------------------------------
(* Step 5: md(str(content_root), heading_style="ATX", bullets="-")         *)

\* markdownify on the elements the model's documents hold.  Text without
\* runs of whitespace and without Markdown specials comes out as it is.
Wrap(tag, n, inner) ==
    CASE tag = "p" -> <<NL, NL>> \o inner \o <<NL, NL>>
      [] tag = "hr" -> <<NL, NL>> \o Dashes \o <<NL, NL>>
      [] tag = "h1" -> <<NL, NL, "#", " ">> \o inner \o <<NL, NL>>
      [] tag = "img" ->
            <<"!", "[">> \o (IF Get(n, "alt") = None THEN <<>> ELSE Get(n, "alt"))
            \o <<"]", "(">>
            \o (IF Get(n, "src") = None THEN <<>> ELSE Get(n, "src"))
            \o <<")">>
      [] tag = "a" ->
            IF Get(n, "href") = None THEN inner
            ELSE <<"[">> \o inner \o <<"]", "(">> \o Get(n, "href") \o <<")">>
      [] tag \in {"script", "style"} -> <<>>
      [] OTHER -> inner

RECURSIVE MdNode(_, _, _)
MdNode(d, i, gone) ==
    LET kids == Children(d, i, gone)
        RECURSIVE MdKids(_)
        MdKids(k) == IF k > Len(kids) THEN <<>>
                     ELSE MdNode(d, kids[k], gone) \o MdKids(k + 1)
    IN IF i = 0 THEN MdKids(1)
       ELSE Wrap(d[i].tag, d[i], d[i].text \o MdKids(1))

md(d, root, gone) == MdNode(d, root, gone)

-----------------------------------------------------------------------------
(* Step 6: clean up excessive blank lines                                  *)

IsBlank(line) == Strip(line) = <<>>

RECURSIVE CleanAcc(_, _, _)
CleanAcc(lines, blank_count, cleaned) ==
    IF lines = <<>> THEN cleaned
    ELSE IF IsBlank(Head(lines))
         THEN CleanAcc(Tail(lines), blank_count + 1,
                       IF blank_count + 1 <= 2 THEN Append(cleaned, <<>>)
                       ELSE cleaned)
         ELSE CleanAcc(Tail(lines), 0, Append(cleaned, Head(lines)))

RECURSIVE CleanNoResetAcc(_, _, _)
\* CleanAcc without the reset of blank_count on a non-blank line
CleanNoResetAcc(lines, blank_count, cleaned) ==
    IF lines = <<>> THEN cleaned
    ELSE IF IsBlank(Head(lines))
         THEN CleanNoResetAcc(Tail(lines), blank_count + 1,
                              IF blank_count + 1 <= 2 THEN Append(cleaned, <<>>)
                              ELSE cleaned)
         ELSE CleanNoResetAcc(Tail(lines), blank_count, Append(cleaned, Head(lines)))

CleanLinesNoReset(lines) == CleanNoResetAcc(lines, 0, <<>>)

CleanLines(lines) == CleanAcc(lines, 0, <<>>)

Normalize(text) == Strip(Join(CleanLines(SplitLines(text))))

-----------------------------------------------------------------------------
(* Step 7: front matter                                                    *)

KeyText ==
    [title |-> <<"t", "i", "t", "l", "e">>,
     description |-> <<"d", "e", "s", "c", "r", "i", "p", "t", "i", "o", "n">>,
     author |-> <<"a", "u", "t", "h", "o", "r">>,
     keywords |-> <<"k", "e", "y", "w", "o", "r", "d", "s">>,
     image |-> <<"i", "m", "a", "g", "e">>]

\* f'{key}: "{safe_value}"'
FrontLine(key, value) ==
    KeyText[key] \o <<":", " ", "\"">> \o EscapeQuotes(value) \o <<"\"">>

FrontMatter(meta) ==
    Join(<<Dashes>> \o [i \in 1..Len(meta) |-> FrontLine(meta[i][1], meta[i][2])]
         \o <<Dashes>>)

\* Compose without the test of metadata
ComposeAlways(meta, text) == FrontMatter(meta) \o <<NL, NL>> \o text

Compose(meta, text) ==
    IF meta # <<>> THEN FrontMatter(meta) \o <<NL, NL>> \o text ELSE text

-----------------------------------------------------------------------------
(* count_tokens                                                            *)

\* The encoder: byte-pair encoding.  The text starts as its characters; the
\* adjacent pair of lowest rank is merged, leftmost first, until no pair of
\* the table is left.  The table stands for the one of TOKEN_MODEL.
Merges == << <<"a", "b">>, <<"a", "ab">> >>

Glue == [x \in {"a", "b", "ab", "aab"}, y \in {"a", "b", "ab", "aab"} |->
            IF <<x, y>> = <<"a", "b">> THEN "ab"
            ELSE IF <<x, y>> = <<"a", "ab">> THEN "aab" ELSE "?"]

RECURSIVE MergeAll(_)
MergeAll(toks) ==
    LET at(r) == {i \in 1..(Len(toks) - 1) : <<toks[i], toks[i + 1]>> = Merges[r]}
        ranks == {r \in 1..Len(Merges) : at(r) # {}}
    IN IF ranks = {} THEN toks
       ELSE LET i == Min(at(Min(ranks)))
            IN MergeAll(SubSeq(toks, 1, i - 1) \o <<Glue[toks[i], toks[i + 1]]>>
                        \o SubSeq(toks, i + 2, Len(toks)))

\* get_encoder().encode(text)
Encode(text) == MergeAll(text)

\* The fallback taken for len(text) % 4
FallbackModulo(text) == Len(text) % 4

\* Rough fallback: ~4 chars per token
Fallback(text) == Len(text) \div 4

\* count_tokens(text); ok: get_encoder() and encode raise nothing
count_tokens(text, ok) == IF ok THEN Len(Encode(text)) ELSE Fallback(text)

\* html_to_markdown as the function the request handler calls
HtmlToMarkdown(d) ==
    LET root == SelectRoot(d)
        gone == RemoveImages(d, root, strip_non_content(d, root, {}, strip_selectors))
    IN Compose(extract_metadata(d), Normalize(md(d, root, gone)))

-----------------------------------------------------------------------------
(* html_to_markdown step by step                                           *)

DocStart(kinds, labelled) ==
    /\ Parsed(doc, kinds, labelled)
    /\ pc = "parsed"
    /\ metadata = <<>>
    /\ content_root = NoNode
    /\ removed = {}
    /\ raw = <<>>
    /\ body = <<>>
    /\ output = <<>>

DocIdle ==
    /\ doc = <<>>
    /\ pc = "idle"
    /\ metadata = <<>>
    /\ content_root = NoNode
    /\ removed = {}
    /\ raw = <<>>
    /\ body = <<>>
    /\ output = <<>>

TokIdle ==
    /\ short_text = <<>>
    /\ suffix = <<>>
    /\ tokenizer_ok = FALSE
    /\ counts = <<>>

ReqIdle ==
    /\ _encoder = None
    /\ constructed = 0
    /\ req = <<>>
    /\ origin = <<>>
    /\ response = <<>>

\* 1. Extract metadata before stripping
ExtractMetadata ==
    /\ pc = "parsed"
    /\ metadata' = extract_metadata(doc)
    /\ pc' = "extracted"
    /\ UNCHANGED <<doc, content_root, removed, raw, body, output, tokVars, reqVars, cfgVars>>

\* 2. Try to isolate <main> or <article> content
IsolateContent ==
    /\ pc = "extracted"
    /\ content_root' = SelectRoot(doc)
    /\ pc' = "rooted"
    /\ UNCHANGED <<doc, metadata, removed, raw, body, output, tokVars, reqVars, cfgVars>>

\* 3. Strip non-content elements
StripNonContent ==
    /\ pc = "rooted"
    /\ removed' = strip_non_content(doc, content_root, removed, strip_selectors)
    /\ pc' = "stripped"
    /\ UNCHANGED <<doc, metadata, content_root, raw, body, output, tokVars, reqVars, cfgVars>>

\* 4. Remove images before conversion
StripImages ==
    /\ pc = "stripped"
    /\ removed' = RemoveImages(doc, content_root, removed)
    /\ pc' = "sanitized"
    /\ UNCHANGED <<doc, metadata, content_root, raw, body, output, tokVars, reqVars, cfgVars>>

\* 5. Convert to Markdown
Serialize ==
    /\ pc = "sanitized"
    /\ raw' = md(doc, content_root, removed)
    /\ pc' = "serialized"
    /\ UNCHANGED <<doc, metadata, content_root, removed, body, output, tokVars, reqVars, cfgVars>>

\* 6. Clean up excessive blank lines
CleanUp ==
    /\ pc = "serialized"
    /\ body' = Normalize(raw)
    /\ pc' = "cleaned"
    /\ UNCHANGED <<doc, metadata, content_root, removed, raw, output, tokVars, reqVars, cfgVars>>

\* 7. Build front matter, return
BuildFrontMatter ==
    /\ pc = "cleaned"
    /\ output' = Compose(metadata, body)
    /\ pc' = "done"
    /\ UNCHANGED <<doc, metadata, content_root, removed, raw, body, tokVars, reqVars, cfgVars>>

NextDoc ==
    \/ ExtractMetadata
    \/ IsolateContent
    \/ StripNonContent
    \/ StripImages
    \/ Serialize
    \/ CleanUp
    \/ BuildFrontMatter

-----------------------------------------------------------------------------
(* Documents for the content root selector                                 *)

RootKinds ==
    { Tag("main"), Tag("article"), Tag("body"),
      El("div", "content", {}, "", "", "", <<>>, <<>>),
      El("div", "", {"content", "wide"}, "", "", "", <<>>, <<>>),
      El("section", "content", {}, "", "", "", <<>>, <<>>),
      El("section", "", {"content"}, "", "", "", <<>>, <<>>),
      TagText("p", <<"x">>) }

InitRoot == DocStart(RootKinds, FALSE) /\ TokIdle /\ ReqIdle /\ DefaultRules

SpecRoot == InitRoot /\ [][NextDoc]_vars

-----------------------------------------------------------------------------
(* C1: the content root                                                    *)

\* The tiers of the fallback chain an element belongs to; the id and class
\* tiers are open to every tag, or to div alone.
Tiers(n, divOnly) ==
    (IF n.tag = "main" THEN {1} ELSE {})
    \cup (IF n.tag = "article" THEN {2} ELSE {})
    \cup (IF n.id = "content" /\ (divOnly => n.tag = "div") THEN {3} ELSE {})
    \cup (IF "content" \in n.cls /\ (divOnly => n.tag = "div") THEN {4} ELSE {})
    \cup (IF n.tag = "body" THEN {5} ELSE {})

\* root is the first element, in document order, of the best tier present;
\* the soup itself when no element is in any tier
FirstOfChain(d, root, divOnly) ==
    LET present == UNION {Tiers(d[j], divOnly) : j \in Nodes(d)}
    IN /\ root # NoNode
       /\ IF present = {} THEN root = 0
          ELSE /\ root \in Nodes(d)
               /\ Min(present) \in Tiers(d[root], divOnly)
               /\ \A j \in Nodes(d) :
                     j < root => Min(present) \notin Tiers(d[j], divOnly)

Rooted == pc \notin {"parsed", "extracted"}

\* C1 as stated: the content root is the first match of the chain main,
\* article, any element with id 'content', any element whose class list
\* contains 'content', body, whole document; never null.
C1_AnyTagChain == Rooted => FirstOfChain(doc, content_root, FALSE)

\* C1 amended: the content root is the first match of the chain main,
\* article, the first div with id 'content', the first div whose class list
\* contains 'content', body, whole document; a higher tier wins whatever the
\* position or nesting, and the root is never null.
C1_DivChain == Rooted => FirstOfChain(doc, content_root, TRUE)

\* A div of class 'content' nested in a section with id 'content' that comes
\* first in the document was chosen.
C1_Witness ==
    /\ pc = "rooted"
    /\ Len(doc) >= 2
    /\ doc[1].tag = "section" /\ doc[1].id = "content"
    /\ doc[2].tag = "div" /\ "content" \in doc[2].cls /\ doc[2].parent = 1
    /\ content_root = 2

-----------------------------------------------------------------------------
(* C2: no chrome element in what is serialized                             *)

Chrome == {"nav", "header", "footer", "script", "style", "form", "aside"}

ChromeKinds == {Tag(t) : t \in Chrome \cup {"main", "p"}}

InitChrome == DocStart(ChromeKinds, TRUE) /\ TokIdle /\ ReqIdle /\ DefaultRules

SpecChrome == InitChrome /\ [][NextDoc]_vars

Sanitized == pc \in {"sanitized", "serialized", "cleaned", "done"}

\* The elements of the content root's subtree that are, or lie in, a chrome
\* element of that subtree
InChrome(d, root) ==
    {j \in SubtreeSelf(d, root) :
        \E a \in ({j} \cup Ancestors(d, j)) \cap SubtreeSelf(d, root) :
            d[a].tag \in Chrome}

-----------------------------------------------------------------------------
(* C3: images                                                              *)

ImgKinds ==
    { El("img", "", {}, "", "", "", ("src" :> <<"x">>) @@ ("alt" :> <<"z">>), <<>>),
      El("meta", "", {}, "", "", "og:image", ("content" :> <<"x">>), <<>>),
      TagText("p", <<"z">>),
      TagText("p", <<"v">>),
      Tag("main"),
      Tag("nav") }

InitImg == DocStart(ImgKinds, FALSE) /\ TokIdle /\ ReqIdle /\ DefaultRules

SpecImg == InitImg /\ [][NextDoc]_vars

\* The images taken out of the content root, by step 3 or by step 4
RemovedImages ==
    {j \in Descendants(doc, content_root) \cap removed : doc[j].tag = "img"}

ImageStrings(j) == {Get(doc[j], a) : a \in {"src", "alt"}} \ {None, <<>>}

OtherSources ==
    {FrontLine(metadata[i][1], metadata[i][2]) : i \in 1..Len(metadata)}
    \cup {doc[j].text : j \in SubtreeSelf(doc, content_root) \ removed}

-----------------------------------------------------------------------------
(* C4: front matter                                                        *)

FrontKinds ==
    { Tag("hr"), Tag("main"),
      TagText("p", <<"x">>),
      TagText("title", <<"T">>),
      TagText("title", <<" ">>),
      El("meta", "", {}, "", "description", "", ("content" :> <<"q", "\"">>), <<>>) }

InitFront == DocStart(FrontKinds, FALSE) /\ TokIdle /\ ReqIdle /\ DefaultRules

SpecFront == InitFront /\ [][NextDoc]_vars

Keys == {"title", "description", "author", "keywords", "image"}

\* t begins with a front-matter block: the '---' line and a key: " line
BeginsWithFrontMatter(t) ==
    \E k \in Keys :
        StartsWith(t, Dashes \o <<NL>> \o KeyText[k] \o <<":", " ", "\"">>)

\* C4 as stated: the output starts with '---' exactly when the metadata is
\* not empty; with empty metadata it is the normalized body and does not
\* start with '---'.
C4_DashesIffMetadata ==
    pc = "done" =>
        /\ StartsWith(output, Dashes) <=> metadata # <<>>
        /\ metadata = <<>> => output = body

\* C4 amended: the output begins with a front-matter block exactly when the
\* metadata is not empty, the block being followed by a blank line and the
\* normalized body; with empty metadata the output is exactly the normalized
\* body, which starts with '---' when the content begins with a horizontal
\* rule.
C4_BlockIffMetadata ==
    pc = "done" =>
        /\ BeginsWithFrontMatter(output) <=> metadata # <<>>
        /\ metadata # <<>> => output = FrontMatter(metadata) \o <<NL, NL>> \o body
        /\ metadata = <<>> => output = body

\* No metadata, and the output starts with the '---' of a horizontal rule.
C4_Witness ==
    /\ pc = "done"
    /\ metadata = <<>>
    /\ StartsWith(output, Dashes)
    /\ \E j \in Nodes(doc) : doc[j].tag = "hr" /\ j \notin removed

-----------------------------------------------------------------------------
(* C6: extract_metadata                                                    *)

MetaKinds ==
    { Tag("head"), Tag("title"),
      TagText("title", <<" ">>),
      TagText("title", <<" ", "T", " ">>),
      El("meta", "", {}, "", "description", "", <<>>, <<>>),
      El("meta", "", {}, "", "description", "", ("content" :> <<>>), <<>>),
      El("meta", "", {}, "", "description", "", ("content" :> <<"d", " ">>), <<>>),
      El("meta", "", {}, "", "author", "", ("content" :> <<" ">>), <<>>),
      El("meta", "", {}, "", "keywords", "", ("content" :> <<"k">>), <<>>),
      El("meta", "", {}, "", "", "og:image", ("content" :> <<"x">>), <<>>) }

InitMeta == DocStart(MetaKinds, FALSE) /\ TokIdle /\ ReqIdle /\ DefaultRules

SpecMeta == InitMeta /\ [][NextDoc]_vars

\* C6: the mapping returned by extract_metadata has its keys among title,
\* description, author, keywords, image, and every value is a non-empty
\* trimmed string; a whitespace-only source is left out.
C6_NonEmptyValues ==
    pc # "parsed" =>
        \A i \in 1..Len(metadata) :
            /\ metadata[i][1] \in Keys
            /\ metadata[i][2] # <<>>
            /\ Strip(metadata[i][2]) = metadata[i][2]

-----------------------------------------------------------------------------
(* C5: the blank-line normalizer                                           *)

LineKinds == { <<>>, <<" ">>, <<"a">>, <<" ", "a", " ">> }

RECURSIVE LineSeqs(_)
LineSeqs(n) ==
    IF n = 0 THEN {<<>>}
    ELSE LET shorter == LineSeqs(n - 1)
         IN shorter \cup {Append(ls, l) : ls \in {x \in shorter : Len(x) = n - 1},
                                           l \in LineKinds}

InitNorm ==
    /\ doc = <<>>
    /\ pc = "serialized"
    /\ metadata = <<>>
    /\ content_root = 0
    /\ removed = {}
    /\ raw \in {Join(ls) : ls \in LineSeqs(MaxLines)}
    /\ body = <<>>
    /\ output = <<>>
    /\ TokIdle /\ ReqIdle /\ DefaultRules

SpecNorm == InitNorm /\ [][CleanUp]_vars

NonBlank(ls) == SelectSeq(ls, LAMBDA l : ~IsBlank(l))

RECURSIVE RunsAcc(_, _, _)
RunsAcc(ls, cur, acc) ==
    IF ls = <<>> THEN Append(acc, cur)
    ELSE IF IsBlank(Head(ls)) THEN RunsAcc(Tail(ls), cur + 1, acc)
    ELSE RunsAcc(Tail(ls), 0, Append(acc, cur))

\* The lengths of the runs of blank lines: before the first non-blank line,
\* between each two, after the last (0 where two lines are adjacent)
Runs(ls) == RunsAcc(ls, 0, <<>>)

Capped(n) == IF n >= 3 THEN 2 ELSE n

\* C5 as stated: every run of 3 or more blank lines becomes 2 blank lines,
\* every run of 1 or 2 keeps its length, wherever the run is in the text,
\* and the non-blank lines are emitted unchanged and in order.
C5_EveryRunCapped ==
    pc = "cleaned" =>
        LET in == SplitLines(raw)
            out == SplitLines(body)
        IN /\ NonBlank(out) = NonBlank(in)
           /\ Runs(out) = [i \in 1..Len(Runs(in)) |-> Capped(Runs(in)[i])]

\* The non-blank lines as the final strip() leaves them: the first without
\* its leading, the last without its trailing whitespace
TrimEnds(ls) ==
    [i \in 1..Len(ls) |->
        LET l == IF i = 1 THEN LStrip(ls[i]) ELSE ls[i]
        IN IF i = Len(ls) THEN RStrip(l) ELSE l]

\* C5 amended: every run of blank lines between two non-blank lines becomes
\* 2 blank lines if it had 3 or more and keeps its length if it had 1 or 2;
\* the blank lines before the first and after the last non-blank line are
\* all removed by the final strip(), which also trims the leading whitespace
\* of the first and the trailing whitespace of the last non-blank line; the
\* other non-blank lines are emitted unchanged, all in order, and the result
\* never holds more than 2 consecutive blank lines.
C5_InnerRunsCapped ==
    pc = "cleaned" =>
        LET in == SplitLines(raw)
            out == SplitLines(body)
            n == Len(Runs(in))
        IN /\ NonBlank(out) = TrimEnds(NonBlank(in))
           /\ Runs(out) = [i \in 1..n |->
                             IF i = 1 \/ i = n THEN 0 ELSE Capped(Runs(in)[i])]
           /\ \A i \in 1..Len(Runs(out)) : Runs(out)[i] <= 2

\* A text with blank lines before its first line and a run of 3 between two
\* lines was normalized.
C5_Witness ==
    /\ pc = "cleaned"
    /\ Len(Runs(SplitLines(raw))) = 3
    /\ Runs(SplitLines(raw))[1] >= 1
    /\ Runs(SplitLines(raw))[2] >= 3
    /\ Runs(SplitLines(body)) = <<0, 2, 0>>

-----------------------------------------------------------------------------
(* C10: count_tokens                                                       *)

RECURSIVE Texts(_)
Texts(n) ==
    IF n = 0 THEN {<<>>}
    ELSE LET shorter == Texts(n - 1)
         IN shorter \cup {Append(t, c) : t \in {x \in shorter : Len(x) = n - 1},
                                          c \in {"a", "b"}}

InitTok ==
    /\ short_text \in Texts(MaxText)
    /\ suffix \in Texts(MaxSuffix) \ {<<>>}
    /\ tokenizer_ok \in BOOLEAN
    /\ counts = <<>>
    /\ DocIdle /\ ReqIdle /\ DefaultRules

\* count_tokens("") , count_tokens(short), count_tokens(short + suffix)
CountTokens ==
    /\ counts = <<>>
    /\ counts' = << count_tokens(<<>>, tokenizer_ok),
                    count_tokens(short_text, tokenizer_ok),
                    count_tokens(short_text \o suffix, tokenizer_ok) >>
    /\ UNCHANGED <<short_text, suffix, tokenizer_ok, docVars, reqVars, cfgVars>>

SpecTok == InitTok /\ [][CountTokens]_vars

\* C10 as stated: count_tokens("") is 0, and the text with content appended
\* has more tokens than the text, on both paths.
C10_StrictlyMore ==
    counts # <<>> => counts[1] = 0 /\ counts[3] > counts[2]

\* C10 amended: count_tokens("") is 0 on both paths.  On the fallback path
\* the longer text never has fewer tokens, and has more when at least 4
\* characters were appended.  On the tokenizer path a non-empty text has at
\* least one token; appended content need not raise the count.
C10_Monotone ==
    counts # <<>> =>
        /\ counts[1] = 0
        /\ ~tokenizer_ok =>
              /\ counts[3] >= counts[2]
              /\ Len(suffix) >= 4 => counts[3] > counts[2]
        /\ tokenizer_ok =>
              /\ counts[3] >= 1
              /\ short_text # <<>> => counts[2] >= 1

\* On the fallback path 3 characters were appended and the count stayed.
C10_Witness ==
    /\ counts # <<>>
    /\ ~tokenizer_ok
    /\ Len(suffix) = 3
    /\ counts[3] = counts[2]

-----------------------------------------------------------------------------
(* The convert handler                                                     *)

Reqs == 1..MaxReqs

CONTENT_SIGNAL == "ai-train=yes, search=yes, ai-input=yes"

TextHtml == <<"t", "e", "x", "t", "/", "h", "t", "m", "l">>
HtmlUtf8 == TextHtml \o <<";", " ", "c", "h", "a", "r", "s", "e", "t", "=",
                          "u", "t", "f", "-", "8">>
AppJson == <<"a", "p", "p", "l", "i", "c", "a", "t", "i", "o", "n", "/",
             "j", "s", "o", "n">>

\* The pages an origin answers with, parsed: the minimal page of the tests
\* and a page with a title and a main element
SamplePages ==
    { << At(Tag("body"), 0), At(TagText("p", <<"a", "b">>), 1) >>,
      << At(TagText("title", <<"a">>), 0), At(Tag("main"), 0),
         At(TagText("h1", <<"a", "a", "b">>), 2), At(Tag("nav"), 2) >> }

\* An origin_response: status code, headers (each field once), content
OriginResponse(status, headers, content) ==
    [raised |-> FALSE, status_code |-> status, headers |-> headers,
     content |-> content]

\* client.get raised httpx.RequestError: no connection, or a timeout
RequestError ==
    [raised |-> TRUE, status_code |-> 0, headers |-> <<>>, content |-> <<>>]

NoOrigin ==
    [raised |-> FALSE, status_code |-> 0, headers |-> <<>>, content |-> <<>>]

StatusCodes == {200, 404, 500}

OriginResponses ==
    {OriginResponse(s, ("content-type" :> HtmlUtf8), page) :
         s \in StatusCodes, page \in SamplePages}
    \cup {OriginResponse(s, ("content-type" :> AppJson), <<"{", "}">>) :
              s \in StatusCodes}
    \cup {OriginResponse(s, ("server" :> <<"x">>), <<"{", "}">>) :
              s \in StatusCodes}

\* What the service answers: status, headers, body; whether html_to_markdown
\* and count_tokens ran for the request; the encoder get_encoder returned
Answer(status, headers, content, converted, encoder) ==
    [status_code |-> status, headers |-> headers, content |-> content,
     converted |-> converted, encoder |-> encoder]

NoAnswer == Answer(0, <<>>, <<>>, FALSE, None)

\* raise HTTPException(status_code=..., detail=...)
HTTPException(status, detail) ==
    Answer(status, ("content-type" :> AppJson), <<detail>>, FALSE, None)

\* The test of the status code left out
NeverOriginError(o) == FALSE

\* origin_response.status_code >= 500
IsServerError(o) == o.status_code >= 500

\* origin_response.status_code >= 400
IsOriginError(o) == o.status_code >= 400

\* "text/html" in origin_response.headers.get("content-type", "")
IsHtml(o) ==
    Contains(IF "content-type" \in DOMAIN o.headers
             THEN o.headers["content-type"] ELSE <<>>,
             TextHtml)

\* get_encoder building an encoder at every call
AlwaysNone(e) == TRUE

\* _encoder is None
IsUnset(e) == e = None

\* The value of _encoder after get_encoder(); loads: tiktoken.get_encoding
\* returns (it raises otherwise, and _encoder stays as it was)
EncoderAfter(e, n, loads) ==
    IF IsUnset(e) /\ loads THEN <<"Encoding", n + 1>> ELSE e

ConstructedAfter(e, n, loads) == IF IsUnset(e) /\ loads THEN n + 1 ELSE n

InitReq ==
    /\ _encoder = None
    /\ constructed = 0
    /\ req = [r \in Reqs |-> [pc |-> "idle", method |-> ""]]
    /\ origin = [r \in Reqs |-> NoOrigin]
    /\ response = [r \in Reqs |-> NoAnswer]
    /\ DocIdle /\ TokIdle /\ DefaultRules

\* A GET or HEAD request arrives; the handler runs up to await client.get
Receive(r) ==
    /\ req[r].pc = "idle"
    /\ \E m \in {"GET", "HEAD"} :
          req' = [req EXCEPT ![r] = [pc |-> "fetching", method |-> m]]
    /\ UNCHANGED <<_encoder, constructed, origin, response, docVars, tokVars, cfgVars>>

\* except httpx.RequestError: raise HTTPException(502)
OriginUnreachable(r) ==
    /\ req[r].pc = "fetching"
    /\ origin' = [origin EXCEPT ![r] = RequestError]
    /\ response' = [response EXCEPT ![r] = HTTPException(502, "Origin unreachable")]
    /\ req' = [req EXCEPT ![r].pc = "done"]
    /\ UNCHANGED <<_encoder, constructed, docVars, tokVars, cfgVars>>

\* The origin answered with a status code >= 400
OriginError(r) ==
    /\ req[r].pc = "fetching"
    /\ \E o \in OriginResponses :
          /\ IsOriginError(o)
          /\ origin' = [origin EXCEPT ![r] = o]
          /\ response' = [response EXCEPT ![r] =
                            HTTPException(o.status_code, "Origin returned an error")]
    /\ req' = [req EXCEPT ![r].pc = "done"]
    /\ UNCHANGED <<_encoder, constructed, docVars, tokVars, cfgVars>>

\* Not HTML - pass through as-is
PassThrough(r) ==
    /\ req[r].pc = "fetching"
    /\ \E o \in OriginResponses :
          /\ ~IsOriginError(o)
          /\ ~IsHtml(o)
          /\ origin' = [origin EXCEPT ![r] = o]
          /\ response' = [response EXCEPT ![r] =
                            Answer(o.status_code, o.headers, o.content, FALSE, None)]
    /\ req' = [req EXCEPT ![r].pc = "done"]
    /\ UNCHANGED <<_encoder, constructed, docVars, tokVars, cfgVars>>

\* html_to_markdown, count_tokens, the Markdown response.  The handler has
\* no await after the fetch: this runs without another request in between.
Convert(r) ==
    /\ req[r].pc = "fetching"
    /\ \E o \in OriginResponses :
          /\ ~IsOriginError(o)
          /\ IsHtml(o)
          /\ LET markdown_text == HtmlToMarkdown(o.content)
             IN \E loads \in BOOLEAN, encodes \in BOOLEAN, duration_ms \in {0, 1} :
                  LET encoder == EncoderAfter(_encoder, constructed, loads)
                      token_count ==
                          count_tokens(markdown_text, encoder # None /\ encodes)
                  IN /\ _encoder' = encoder
                     /\ constructed' = ConstructedAfter(_encoder, constructed, loads)
                     /\ origin' = [origin EXCEPT ![r] = o]
                     /\ response' = [response EXCEPT ![r] =
                           Answer(200,
                                  ("content-type" :> "text/markdown; charset=utf-8")
                                  @@ ("x-markdown-tokens" :> token_count)
                                  @@ ("x-conversion-time-ms" :> duration_ms)
                                  @@ ("content-signal" :> CONTENT_SIGNAL)
                                  @@ ("vary" :> "Accept")
                                  @@ ("cache-control" :> "public, max-age=300"),
                                  markdown_text, TRUE, encoder)]
    /\ req' = [req EXCEPT ![r].pc = "done"]
    /\ UNCHANGED <<docVars, tokVars, cfgVars>>

Next ==
    \E r \in Reqs :
        \/ Receive(r)
        \/ OriginUnreachable(r)
        \/ OriginError(r)
        \/ PassThrough(r)
        \/ Convert(r)

Spec == InitReq /\ [][Next]_vars

-----------------------------------------------------------------------------
(* C7, C8: what the handler answers                                        *)

Done(r) == req[r].pc = "done"

\* C7: a request whose fetch raised (no connection, timeout) is answered
\* 502; a request whose origin answered with a status code >= 400 is
\* answered with that status code, and html_to_markdown and count_tokens did
\* not run for it.
C7_ErrorsForwarded ==
    \A r \in Reqs :
        Done(r) =>
            /\ origin[r].raised =>
                  response[r].status_code = 502 /\ ~response[r].converted
            /\ (~origin[r].raised /\ origin[r].status_code >= 400) =>
                  /\ response[r].status_code = origin[r].status_code
                  /\ ~response[r].converted
                  /\ response[r].encoder = None

\* One request was answered 502 after a failed fetch, another 404 after the
\* origin's 404 for an HTML page.
C7_Witness ==
    \E r, q \in Reqs :
        /\ Done(r) /\ origin[r].raised /\ response[r].status_code = 502
        /\ Done(q) /\ ~origin[q].raised /\ origin[q].status_code = 404
        /\ "content-type" \in DOMAIN origin[q].headers
        /\ origin[q].headers["content-type"] = HtmlUtf8
        /\ response[q].status_code = 404

\* The content type of the origin's answer is not HTML
NotHtml(o) ==
    ~o.raised /\ o.status_code # 0
    /\ ("content-type" \in DOMAIN o.headers => o.headers["content-type"] = AppJson)

Unchanged(r) ==
    /\ response[r].status_code = origin[r].status_code
    /\ response[r].headers = origin[r].headers
    /\ response[r].content = origin[r].content
    /\ ~response[r].converted

\* C8 as stated: whatever the origin's status code, 4xx and 5xx included,
\* an answer that is not HTML is passed on with its status code, headers and
\* body, and the pipeline does not run.
C8_AnyStatusPassedOn ==
    \A r \in Reqs : (Done(r) /\ NotHtml(origin[r])) => Unchanged(r)

\* C8 amended: an answer that is not HTML and has a status code below 400 is
\* passed on with the origin's status code, headers and content, and the
\* pipeline does not run; with a status code of 400 or more the service
\* answers an error of that status code instead, whose body is the error's
\* detail and not the origin's body, the pipeline not run either.
C8_BelowErrorPassedOn ==
    \A r \in Reqs :
        (Done(r) /\ NotHtml(origin[r])) =>
            IF origin[r].status_code < 400 THEN Unchanged(r)
            ELSE /\ response[r].status_code = origin[r].status_code
                 /\ response[r].content = <<"Origin returned an error">>
                 /\ response[r].content # origin[r].content
                 /\ ~response[r].converted

\* A JSON answer with status 200 was passed on, and one with no content
\* type at all.
C8_Witness ==
    \E r, q \in Reqs :
        /\ Done(r) /\ origin[r].status_code = 200
        /\ "content-type" \in DOMAIN origin[r].headers
        /\ origin[r].headers["content-type"] = AppJson
        /\ Unchanged(r)
        /\ Done(q) /\ origin[q].status_code = 200
        /\ "content-type" \notin DOMAIN origin[q].headers
        /\ Unchanged(q)

-----------------------------------------------------------------------------
(* C9: the shared encoder                                                  *)

\* C9: whatever the order in which the requests that were fetching while
\* _encoder was unset go on, the encoder is built at most once, every
\* caller that got an encoder got that one instance, and once set _encoder
\* never changes.
C9_BuiltOnce ==
    /\ [](/\ constructed <= 1
          /\ _encoder # None => constructed = 1
          /\ \A r \in Reqs :
                response[r].encoder # None => response[r].encoder = _encoder)
    /\ [][_encoder # None => _encoder' = _encoder]_vars

\* Two requests were converted, both with the one encoder instance.
C9_Witness ==
    /\ MaxReqs >= 2
    /\ constructed = 1
    /\ \E r, q \in Reqs :
          /\ r # q
          /\ Done(r) /\ response[r].converted /\ response[r].encoder = _encoder
          /\ Done(q) /\ response[q].converted /\ response[q].encoder = _encoder
          /\ _encoder # None

-----------------------------------------------------------------------------
(* C11: overlapping and nested strip rules                                 *)

StripKinds ==
    {Tag("main"), Tag("nav"), Tag("p"),
     El("nav", "", {"sidebar"}, "", "", "", <<>>, <<>>),
     El("main", "", {"sidebar"}, "", "", "", <<>>, <<>>)}

\* Selectors a configured list can hold: two simple ones and one whose
\* matches depend on what is still attached
RuleKinds == {Sel("tag", "nav"), Sel("class", "sidebar"), Sel("first-child", "p")}

RECURSIVE RuleSeqs(_)
RuleSeqs(n) ==
    IF n = 0 THEN {<<>>}
    ELSE LET shorter == RuleSeqs(n - 1)
         IN shorter \cup {Append(rs, r) : rs \in {x \in shorter : Len(x) = n - 1},
                                           r \in RuleKinds}

\* strip_non_content(content_root) about to run on a parsed document, under
\* a rule list of at most MaxRules selectors
InitStrip ==
    /\ Parsed(doc, StripKinds, FALSE)
    /\ pc = "rooted"
    /\ metadata = extract_metadata(doc)
    /\ content_root = SelectRoot(doc)
    /\ removed = {}
    /\ raw = <<>>
    /\ body = <<>>
    /\ output = <<>>
    /\ strip_selectors \in RuleSeqs(MaxRules)
    /\ TokIdle
    /\ ReqIdle

SpecStrip == InitStrip /\ [][StripNonContent]_vars

Stripped == pc = "stripped"

Simple(sel) == sel.kind # "first-child"

AllSimple(rules) == \A k \in DOMAIN rules : Simple(rules[k])

\* The descendants of root that some rule matches in the tree as parsed
MatchedByAny(d, root, rules) ==
    {j \in Descendants(d, root) :
        \E k \in DOMAIN rules : MatchesIn(d, {}, j, rules[k])}

\* Every element that matches any rule, each with its subtree
AllMatchedGone(d, root, rules) ==
    UNION {SubtreeSelf(d, j) : j \in MatchedByAny(d, root, rules)}

\* Every ordering of a rule list
Orderings(rules) ==
    LET n == Len(rules)
    IN {[i \in 1..n |-> rules[f[i]]] :
           f \in {g \in [1..n -> 1..n] : \A a, b \in 1..n : g[a] = g[b] => a = b}}

====
